---- MODULE Spec2Model ----
(***************************************************************************)
(* Deck synchronisation client of create_spanish_decks_via_ankiconnect.py: *)
(* main() runs ensure_model_exists, create_decks,                          *)
(* filter_addable_notes_all_decks and add_notes_all_decks against the      *)
(* AnkiConnect JSON-RPC endpoint.  The remote collection (models, decks,   *)
(* notes) is the environment; every invoke() is logged in `calls`.         *)
(***************************************************************************)
EXTENDS Integers, Sequences, FiniteSets, TLC

VARIABLES
    catalog,      \* decks_data: ordered mapping category -> cards (a dict keeps insertion order)
    models,       \* remote: the note types of the collection
    deckNames,    \* remote: the names of the existing decks
    notes,        \* remote: number of stored notes per (English, Spanish) pair
    stmt,         \* main(): number of statements of MainSequence completed
    failure,      \* "" while main() runs, else the kind of the exception that ended it
    calls,        \* the requests invoke() has posted in this run, in order
    existingRead, \* create_decks: the list deckNames returned (Unread before the call)
    deckStatus,   \* create_decks: the result list of the createDeck multi call
    deckReport,   \* create_decks: the per-deck lines printed after the multi call
    filtered,     \* main(): the mapping filter_addable_notes_all_decks returned
    writeResults, \* add_notes_all_decks: the result list of the addNotes multi call
    report,       \* add_notes_all_decks: the per-deck lines printed
    run,          \* 1 for the first run of main(), 2 for the run started after it
    notes0,       \* the notes of the collection when this run started
    prev,         \* what the previous run did (PrevNone in the first run)
    response,     \* invoke: the HTTP response the transport hands to the function
    outcome,      \* invoke: what the call did with it (returned a value or raised)
    step,         \* update_export_and_release.main(): the step it is at
    requested,    \* the requests the release steps have posted, in order
    export_result,\* main(): what export_deck returned
    deck_stats,   \* main(): what get_deck_stats returned
    token,        \* GITHUB_TOKEN is set
    released,     \* main(): "" before step 3, then "created", "failed" or "skipped"
    github_status,\* create_github_release: the answers to its requests, in order
    workers,      \* add-on: the background threads started, in order of start
    triggers,     \* add-on: number of times the menu action was triggered
    source_dir,   \* build: whether the source directory exists, and the files in it
    manifest,     \* build: manifest.json of the source directory (loadable, version)
    archive,      \* build: << >> until the package is written, then << its members >>
    packages,     \* build: the .ankiaddon files of the output directory
    build,        \* AddonBuilder.build: its arguments, its position and its failure
    col,          \* exporter plugin: the names of the decks of the collection (mw.col)
    allowed_decks,\* exporter plugin: the configured list of exportable decks
    disk,         \* exporter plugin: the directories made and the files written
    export        \* exporter plugin: one call of export_deck_apkg and what it did

\* the variables of the sync run
syncVars == << catalog, models, deckNames, notes, stmt, failure, calls, existingRead,
               deckStatus, deckReport, filtered, writeResults, report, run, notes0, prev >>

\* the variables of a single call of invoke
invokeVars == << response, outcome >>

\* the variables of the release workflow around the sync run
releaseVars == << step, requested, export_result, deck_stats, token, released,
                 github_status >>

\* the variables of the add-on
addonVars == << workers, triggers >>

\* the variables of the add-on build
buildVars == << source_dir, manifest, archive, packages, build >>

\* the variables of the exporter plugin
exporterVars == << col, allowed_decks, disk, export >>

\* the variables of the developer tools, which no run of the workflow touches
toolVars == << buildVars, exporterVars >>

\* what no statement of the sync run touches
outside == << invokeVars, releaseVars, addonVars, toolVars >>

vars == << syncVars, invokeVars, releaseVars, addonVars, toolVars >>

----------------------------------------------------------------------------
(* Bounds of the model *)

\* number of cards of the catalog, all categories together
MaxCards == 2

\* number of times the menu action of the add-on is triggered
MaxTriggers == 2

\* number of requests a script subprocess started by the add-on posts
MaxRequests == 2

\* number of .ankiaddon files in the output directory before a build
MaxOldPackages == 4

\* clean_old_packages: keep_count
keep_count == 3

----------------------------------------------------------------------------
(* Constants of the program *)

MODEL_NAME == "Spanish Pronunciation Model (EN->ES TTS)"

ROOT_DECK == "Spanish Pronunciation Trainer"

\* Three of the 24 entries, in their order in the list: two that are keys of
\* `decks` and the one entry ("Original Cards") that is not.
SUBDECKS == << "Verb Conjugations", "Numbers", "Original Cards" >>

\* The keys of `decks` kept in the model, in their order in the literal.
CatalogKeys == << "Verb Conjugations", "Numbers" >>

\* (English, Spanish) pairs the card lists are drawn from.
Pairs == { << "My name", "Me llamo (yo)" >>, << "one", "uno" >> }

\* f"{ROOT_DECK}::{subdeck}"
FullName(subdeck) == "Spanish Pronunciation Trainer::" \o subdeck

\* deck_name.lower().replace(" ", "_")
TagOf(deck_name) ==
    CASE deck_name = "Verb Conjugations" -> "verb_conjugations"
      [] deck_name = "Numbers" -> "numbers"
      [] deck_name = "Original Cards" -> "original_cards"

\* The model ensure_model_exists creates.
ModelDefinition ==
    [ modelName |-> MODEL_NAME,
      inOrderFields |-> << "English", "Spanish", "Tags" >>,
      cardTemplates |-> << [ Name |-> "EN->ES with TTS", Front |-> "{{English}}" ] >> ]

\* A model of that name already in the collection (an earlier variant of it).
ExistingModel ==
    [ modelName |-> MODEL_NAME,
      inOrderFields |-> << "English", "Spanish" >>,
      cardTemplates |-> << [ Name |-> "EN->ES", Front |-> "{{English}}" ] >> ]

----------------------------------------------------------------------------
(* JSON values of the responses *)

Null == [ kind |-> "null", error |-> "" ]

\* an object; error = "" stands for an absent or null "error" member
Object(error) == [ kind |-> "object", error |-> error ]

\* a Python value used as a condition: None and "" are false
Truthy(v) == v.kind # "null" /\ v.error # ""

PrevNone == [ ran |-> FALSE, decksOk |-> FALSE, writesOk |-> FALSE, writes |-> {} ]

----------------------------------------------------------------------------
(* invoke / invoke_ankiconnect: one request, one response *)

\* a JSON value of a response body: null, a string, or an array (named by its text)
JNull == [ type |-> "null", text |-> "" ]

JString(text) == [ type |-> "string", text |-> text ]

JArray(text) == [ type |-> "array", text |-> text ]

\* the key is not in the response body
Absent == [ type |-> "absent", text |-> "" ]

\* dict.get(key): None when the key is absent
Get(field) == IF field.type = "absent" THEN JNull ELSE field

\* the truth value Python gives a JSON value in `if value:`
PyTruth(value) ==
    \/ value.type = "string" /\ value.text # ""
    \/ value.type = "array" /\ value.text # "[]"

\* the `error` fields and the `result` fields a response can carry
ErrorFields ==
    { Absent, JNull, JString(""), JString("model was not found"),
      JString("collection is not available") }

ResultFields == { Absent, JNull, JArray("[]"), JArray("[1, 2]") }

\* what requests.post can give: a body with status 200, a body with an error
\* status, or no connection at all
Responses ==
    [ status : { "200", "500", "unreachable" }, error : ErrorFields, result : ResultFields ]

NoResponse == [ status |-> "none", error |-> Absent, result |-> Absent ]

\* the two ways a call ends
Raised(message) == [ raised |-> TRUE, message |-> message, value |-> JNull ]

Returned(value) == [ raised |-> FALSE, message |-> "", value |-> value ]

NotCalled == [ fn |-> "", res |-> Returned(JNull) ]

\* create_spanish_decks_via_ankiconnect.invoke
Invoke(resp) ==
    IF resp.status = "unreachable" THEN Raised("ConnectionError")
    ELSE IF resp.status # "200" THEN Raised("HTTPError")
    ELSE IF PyTruth(Get(resp.error)) THEN Raised(resp.error.text)
    ELSE Returned(Get(resp.result))

\* update_export_and_release.invoke_ankiconnect
InvokeAnkiconnect(resp) ==
    IF resp.status = "unreachable" THEN Raised("ConnectionError")
    ELSE IF resp.status # "200" THEN Raised("HTTPError")
    ELSE IF PyTruth(Get(resp.error)) THEN Raised(resp.error.text)
    ELSE Returned(Get(resp.result))

----------------------------------------------------------------------------
(* build_addon.py: values *)

\* AddonBuilder.__init__: required_files and optional_files
RequiredFiles == << "__init__.py", "manifest.json", "config.json", "logger.py" >>

OptionalFiles == << "config.md", "README.md" >>

\* other files a source directory can hold
OtherFiles == { "notes.txt", "helper.pyc" }

\* the files of OtherFiles that match one of the default exclude_patterns
\* '*.ankiaddon', '__pycache__', '*.pyc', '.git*'
ExcludedFiles == { "helper.pyc" }

Range(seq) == { seq[i] : i \in 1..Len(seq) }

FileNames == Range(RequiredFiles) \cup Range(OptionalFiles) \cup OtherFiles

\* the name of the source directory, as the failure prints it
SourceDirName == "spanish_pronunciation_addon"

\* the version of manifest.json before the build: major, minor, patch
Version0 == << 1, 0, 3 >>

\* build has not been called
NoBuild ==
    [ pc |-> "none", increment_version |-> "", clean |-> FALSE,
      error |-> "", names |-> {} ]

\* validate_source_directory, with no required file ever found missing
MissingFilesIgnored(files) == SelectSeq(RequiredFiles, LAMBDA f : FALSE)

\* validate_source_directory: missing_files
MissingFiles(files) == SelectSeq(RequiredFiles, LAMBDA f : f \notin files)

\* collect_files: the required files, then the optional files, that exist
CollectFiles(files) ==
    SelectSeq(RequiredFiles, LAMBDA f : f \in files)
        \o SelectSeq(OptionalFiles, LAMBDA f : f \in files)

\* create_package: the names os.walk gives that match no exclude pattern
WalkFiles(files) == { f \in files : f \notin ExcludedFiles }

\* increment_version: the new major, minor, patch
NewVersion(version, version_type) ==
    IF version_type = "major" THEN << version[1] + 1, 0, 0 >>
    ELSE IF version_type = "minor" THEN << version[1], version[2] + 1, 0 >>
    ELSE << version[1], version[2], version[3] + 1 >>

\* verify_package: missing_required
MissingRequired(file_list) == SelectSeq(RequiredFiles, LAMBDA f : f \notin file_list)

\* clean_old_packages: how many of `count` packages are removed
FilesToRemove(count) == IF count <= keep_count THEN 0 ELSE count - keep_count

----------------------------------------------------------------------------
(* anki_deck_exporter: export_deck_apkg *)

\* the deck names a caller can pass and a collection can hold
DeckNames == { "Spanish Pronunciation Trainer", "Default", "Scratch" }

\* the default of allowed_decks
DefaultAllowedDecks == << "Spanish Pronunciation Trainer" >>

\* the configurations of allowed_decks: the default, a longer list, none
AllowedDeckLists ==
    { DefaultAllowedDecks, << "Spanish Pronunciation Trainer", "Default" >>, << >> }

\* nothing made on disk
NoDisk == [ dirs |-> {}, files |-> {} ]

\* export_deck_apkg has not been called
NoExportCall ==
    [ impl |-> "", deck_name |-> "", output_path |-> "", before |-> {},
      returned |-> FALSE, success |-> FALSE, error |-> "",
      lookups |-> 0, exporters |-> 0 ]

\* the results export_deck_apkg returns
Failure(error) == [ success |-> FALSE, error |-> error ]

Success == [ success |-> TRUE, error |-> "" ]

\* mw.col.decks.id(name, create): the deck's id, None for a missing deck
\* when create is False; with create True, the default, a missing deck is
\* created and its id returned
DecksId(name, create, decks) ==
    [ found |-> name \in decks \/ create,
      decks |-> IF create THEN decks \cup { name } ELSE decks ]

\* the validation of the deck name, with every name let through
AllowedAlways(deck_name, allowed) == deck_name = deck_name

\* `deck_name not in allowed_decks`, negated
Allowed(deck_name, allowed) == deck_name \in Range(allowed)

\* the path the export is written to: the one given, or a file named after
\* the deck in the export directory
OutputPath(deck_name, output_path) ==
    IF output_path = "" THEN "export_path/" \o deck_name \o ".apkg" ELSE output_path

\* the directory os.makedirs is called on
DirName(path) == IF path = "out/deck.apkg" THEN "out" ELSE "export_path"

\* export_deck_apkg from the validation on, for a lookup with the given
\* `create`; `exporting` is what exportInto did: "written", "not_written"
\* (it returned without a file) or "raised". The value gives the result and
\* the collection, the disk and the counts of lookups and exporters after it.
ExportDeckApkgBody(create, deck_name, output_path, allowed, decks, exporting) ==
    LET looked == DecksId(deck_name, create, decks)
        path == OutputPath(deck_name, output_path)
        made == [ dirs |-> { DirName(path) }, files |-> {} ]
    IN
    IF ~Allowed(deck_name, allowed)
    THEN [ result |-> Failure("not in allowed decks"), decks |-> decks,
           disk |-> NoDisk, lookups |-> 0, exporters |-> 0 ]
    ELSE IF ~looked.found
    THEN [ result |-> Failure("not found"), decks |-> looked.decks,
           disk |-> NoDisk, lookups |-> 1, exporters |-> 0 ]
    ELSE IF exporting = "raised"
    THEN [ result |-> Failure("Export failed"), decks |-> looked.decks,
           disk |-> made, lookups |-> 1, exporters |-> 1 ]
    ELSE IF exporting = "not_written"
    THEN [ result |-> Failure("Export completed but file was not created"),
           decks |-> looked.decks, disk |-> made, lookups |-> 1, exporters |-> 1 ]
    ELSE [ result |-> Success, decks |-> looked.decks,
           disk |-> [ made EXCEPT !.files = { path } ], lookups |-> 1, exporters |-> 1 ]

\* DeckExporter.export_deck_apkg: mw.col.decks.id(deck_name)
DeckExporterExportDeckApkg(deck_name, output_path, allowed, decks, exporting) ==
    ExportDeckApkgBody(TRUE, deck_name, output_path, allowed, decks, exporting)

\* ankiconnect_integration.export_deck_apkg: mw.col.decks.id(deck_name, create=False)
IntegrationExportDeckApkg(deck_name, output_path, allowed, decks, exporting) ==
    ExportDeckApkgBody(FALSE, deck_name, output_path, allowed, decks, exporting)

----------------------------------------------------------------------------
(* the release workflow: values *)

\* export_deck has not returned
NoExport == [ success |-> FALSE, via |-> "" ]

\* get_deck_stats has not returned; `counted` are the decks whose findCards
\* answered (their cards make total_cards), `failed` that deckNames raised
NoStats == [ deck_count |-> 0, counted |-> {}, failed |-> FALSE ]

\* a request of a release step: to AnkiConnect, to the exporter plugin's own
\* server, or to GitHub
Post(to, action, arg) == [ to |-> to, action |-> action, arg |-> arg ]

\* get_deck_stats: the dict returned by the outer except
ZeroStats == [ deck_count |-> 0, counted |-> {}, failed |-> TRUE ]

----------------------------------------------------------------------------
(* The inputs *)

CardLists == UNION { [1..n -> Pairs] : n \in 0..MaxCards }

\* the ordered key lists: subsequences of CatalogKeys
KeyLists == { << >>, << CatalogKeys[1] >>, << CatalogKeys[2] >>, CatalogKeys }

RECURSIVE CardCount(_)
CardCount(decks_data) ==
    IF decks_data = << >> THEN 0
    ELSE Len(Head(decks_data).cards) + CardCount(Tail(decks_data))

Catalogs ==
    { decks_data \in
        UNION { { [ k \in 1..Len(keys) |-> [ name |-> keys[k], cards |-> cs[k] ] ]
                  : cs \in [1..Len(keys) -> CardLists] }
                : keys \in KeyLists } :
        CardCount(decks_data) <= MaxCards }

AllDeckNames == { FullName(SUBDECKS[i]) : i \in 1..Len(SUBDECKS) }

\* the decks of the collection before the first run: none, one, all of them
\* (refused createDeck items leave every other subset behind for a second run)
InitialDecks == { {}, { FullName(SUBDECKS[1]) }, AllDeckNames }

\* what each call of invoke() can do: return, raise from requests
\* (raise_for_status, connection error), raise on the response's error
InvokeOutcomes == { "ok", "transport", "error" }

----------------------------------------------------------------------------
(* Requests *)

Request(action, params) == [ action |-> action, params |-> params ]

NoParams == << >>

\* NoteSpec with the duplicate check of the collection switched off
NoteSpecAllowingDuplicates(deck_name, card) ==
    [ deckName |-> FullName(deck_name),
      modelName |-> MODEL_NAME,
      fields |-> [ English |-> card[1], Spanish |-> card[2], Tags |-> TagOf(deck_name) ],
      options |-> [ allowDuplicate |-> TRUE ],
      tags |-> << TagOf(deck_name) >> ]

\* the note dict of filter_addable_notes_all_decks
NoteSpec(deck_name, card) ==
    [ deckName |-> FullName(deck_name),
      modelName |-> MODEL_NAME,
      fields |-> [ English |-> card[1], Spanish |-> card[2], Tags |-> TagOf(deck_name) ],
      options |-> [ allowDuplicate |-> FALSE ],
      tags |-> << TagOf(deck_name) >> ]

PairOf(note) == << note.fields.English, note.fields.Spanish >>

Min(a, b) == IF a <= b THEN a ELSE b

\* the indices at which a list of booleans holds TRUE, in order
Indices(keep) == SelectSeq([ i \in 1..Len(keep) |-> i ], LAMBDA i : keep[i])

----------------------------------------------------------------------------
(* The functions of the script, as values computed from their inputs *)

\* MissingDecks without the test against `existing`
MissingDecksUnchecked(existing) ==
    [ j \in 1..Len(SUBDECKS) |->
        Request("createDeck", [ deck |-> FullName(SUBDECKS[j]) ]) ]

\* MissingDecks with the loop stopping one subdeck early
MissingDecksButLast(existing) ==
    LET idx == Indices([ i \in 1..Len(SUBDECKS) - 1 |-> FullName(SUBDECKS[i]) \notin existing ])
    IN  [ j \in 1..Len(idx) |->
            Request("createDeck", [ deck |-> FullName(SUBDECKS[idx[j]]) ]) ]

\* create_decks: the createDeck actions for the subdecks not in `existing`
MissingDecks(existing) ==
    LET idx == Indices([ i \in 1..Len(SUBDECKS) |-> FullName(SUBDECKS[i]) \notin existing ])
    IN  [ j \in 1..Len(idx) |->
            Request("createDeck", [ deck |-> FullName(SUBDECKS[idx[j]]) ]) ]

\* BuildCheckActions leaving out the decks that have no cards
BuildCheckActionsSkippingEmpty(decks_data) ==
    LET idx == Indices([ k \in 1..Len(decks_data) |-> decks_data[k].cards # << >> ])
    IN  [ j \in 1..Len(idx) |->
            Request("canAddNotesWithErrorDetail",
                    [ notes |-> [ i \in 1..Len(decks_data[idx[j]].cards) |->
                                    NoteSpec(decks_data[idx[j]].name,
                                             decks_data[idx[j]].cards[i]) ] ]) ]

\* filter_addable_notes_all_decks: multi_actions, one check per deck of decks_data
BuildCheckActions(decks_data) ==
    [ k \in 1..Len(decks_data) |->
        Request("canAddNotesWithErrorDetail",
                [ notes |-> [ i \in 1..Len(decks_data[k].cards) |->
                                NoteSpec(decks_data[k].name, decks_data[k].cards[i]) ] ]) ]

\* IsAddable with the test of the error member inverted
IsAddableInverted(res) == res.kind = "null" \/ Truthy(res)

\* IsAddable that never looks at the result
IsAddableAlways(res) == res = res

\* res is None or not res.get("error")
IsAddable(res) == res.kind = "null" \/ ~Truthy(res)

\* ClassifyDeck counting a refused card as skipped only when it is a duplicate
ClassifyDeckCountingDuplicates(deck_name, cards, check_result) ==
    LET n == Min(Len(cards), Len(check_result))
        idx == Indices([ i \in 1..n |-> IsAddable(check_result[i]) ])
        dup == Indices([ i \in 1..n |->
                 check_result[i].error = "cannot create note because it is a duplicate" ])
    IN  [ name |-> deck_name,
          addable |-> [ j \in 1..Len(idx) |-> NoteSpec(deck_name, cards[idx[j]]) ],
          skipped |-> Len(dup) ]

\* ClassifyDeck reading the results of a deck from the last to the first
ClassifyDeckReversed(deck_name, cards, check_result) ==
    LET n == Min(Len(cards), Len(check_result))
        idx == Indices([ i \in 1..n |-> IsAddable(check_result[n + 1 - i]) ])
    IN  [ name |-> deck_name,
          addable |-> [ j \in 1..Len(idx) |-> NoteSpec(deck_name, cards[idx[j]]) ],
          skipped |-> n - Len(idx) ]

\* the inner loop over zip(cards, check_result)
ClassifyDeck(deck_name, cards, check_result) ==
    LET n == Min(Len(cards), Len(check_result))
        idx == Indices([ i \in 1..n |-> IsAddable(check_result[i]) ])
    IN  [ name |-> deck_name,
          addable |-> [ j \in 1..Len(idx) |-> NoteSpec(deck_name, cards[idx[j]]) ],
          skipped |-> n - Len(idx) ]

\* FilterOutput with no entry for a deck that has no cards
FilterOutputSkippingEmpty(decks_data, results) ==
    LET n == Min(Len(decks_data), Len(results))
        idx == Indices([ k \in 1..n |-> decks_data[k].cards # << >> ])
    IN  [ j \in 1..Len(idx) |->
            ClassifyDeck(decks_data[idx[j]].name, decks_data[idx[j]].cards,
                         results[idx[j]]) ]

\* the loop over zip(deck_keys, results, decks_data.values()) filling `output`
FilterOutput(decks_data, results) ==
    [ k \in 1..Min(Len(decks_data), Len(results)) |->
        ClassifyDeck(decks_data[k].name, decks_data[k].cards, results[k]) ]

\* BuildWriteActions without the `if not addable: continue`
BuildWriteActionsAll(filtered_results) ==
    [ k \in 1..Len(filtered_results) |->
        Request("addNotes", [ notes |-> filtered_results[k].addable ]) ]

\* DeckReport printing 'ok' for every deck, whatever its status
DeckReportAlwaysOk(actions, result) ==
    [ k \in 1..Min(Len(actions), Len(result)) |->
        [ deck |-> actions[k].params.deck, status |-> "ok" ] ]

\* create_decks: the lines printed by the loop over zip(decks, result),
\* 'ok' if status is None else status
DeckReport(actions, result) ==
    [ k \in 1..Min(Len(actions), Len(result)) |->
        [ deck |-> actions[k].params.deck,
          status |-> IF result[k].kind = "null" THEN "ok"
                     ELSE IF result[k].error = "" THEN "id"
                     ELSE result[k].error ] ]

\* add_notes_all_decks: multi_actions, one addNotes per deck with addable notes
BuildWriteActions(filtered_results) ==
    LET idx == Indices([ k \in 1..Len(filtered_results) |->
                             filtered_results[k].addable # << >> ])
    IN  [ j \in 1..Len(idx) |->
            Request("addNotes", [ notes |-> filtered_results[idx[j]].addable ]) ]

\* the lines printed by the loop over zip(filtered_results.items(), results)
ReportLines(filtered_results, results) ==
    [ k \in 1..Min(Len(filtered_results), Len(results)) |->
        [ deck |-> FullName(filtered_results[k].name),
          added |-> Len(filtered_results[k].addable),
          skipped |-> filtered_results[k].skipped ] ]

\* ModelMissing without the lookup of the name
ModelMissingAlways(existing_models) == existing_models = existing_models

\* ensure_model_exists: the model has to be created
ModelMissing(existing_models) == MODEL_NAME \notin existing_models

\* MainSequence with the two provisioning statements after the duplicate check
MainSequenceCheckFirst ==
    << "filter_addable_notes_all_decks", "ensure_model_exists", "create_decks",
       "add_notes_all_decks", "print_summary" >>

\* main(): the statements in the order they run
MainSequence ==
    << "ensure_model_exists", "create_decks", "filter_addable_notes_all_decks",
       "add_notes_all_decks", "print_summary" >>

----------------------------------------------------------------------------
(* The remote collection behind the endpoint *)

ModelNames(ms) == { m.modelName : m \in ms }

\* why the collection refuses a note ("" when it accepts it)
RemoteRefusal(note, ms, ds, ns) ==
    IF note.modelName \notin ModelNames(ms) THEN "model was not found"
    ELSE IF note.deckName \notin ds THEN "deck was not found"
    ELSE IF ~note.options.allowDuplicate /\ ns[PairOf(note)] > 0
         THEN "cannot create note because it is a duplicate"
    ELSE ""

\* canAddNotesWithErrorDetail: one result per probe, null (or an object
\* without error) when the note can be added
RemoteCanAdd(probes, form, ms, ds, ns) ==
    [ i \in 1..Len(probes) |->
        LET why == RemoteRefusal(probes[i], ms, ds, ns)
        IN  IF why # "" THEN Object(why)
            ELSE IF form = "null" THEN Null ELSE Object("") ]

\* addNotes of an accepted group: the notes are added one after the other,
\* a refused note is left out
RECURSIVE RemoteAddNotes(_, _, _, _)
RemoteAddNotes(group, ms, ds, ns) ==
    IF group = << >> THEN ns
    ELSE LET note == Head(group)
             ns1 == IF RemoteRefusal(note, ms, ds, ns) = ""
                    THEN [ ns EXCEPT ![PairOf(note)] = @ + 1 ]
                    ELSE ns
         IN  RemoteAddNotes(Tail(group), ms, ds, ns1)

\* multi of addNotes actions: the groups in `failing` are refused as a whole
\* and change nothing, the others are added in order
RECURSIVE RemoteMultiAdd(_, _, _, _, _, _)
RemoteMultiAdd(actions, k, failing, ms, ds, ns) ==
    IF k > Len(actions) THEN ns
    ELSE RemoteMultiAdd(actions, k + 1, failing, ms, ds,
                        IF k \in failing THEN ns
                        ELSE RemoteAddNotes(actions[k].params.notes, ms, ds, ns))

\* the result list of a multi call with the items in `failing` refused
MultiResults(n, failing) ==
    [ k \in 1..n |-> IF k \in failing THEN Object("error") ELSE Object("") ]

\* the actions of a posted request (those of its sub-requests for a multi)
ActionsOf(c) ==
    IF c.action = "multi"
    THEN { c.params.actions[k].action : k \in 1..Len(c.params.actions) }
    ELSE { c.action }

\* the writing actions among the requests of a log
WritesIn(log) ==
    { a \in { "createModel", "createDeck", "addNotes" } :
        \E i \in 1..Len(log) : a \in ActionsOf(log[i]) }

AllOk(results) == \A k \in 1..Len(results) : ~Truthy(results[k])

----------------------------------------------------------------------------
(* The run *)

SyncInit ==
    /\ catalog \in Catalogs
    /\ models \in { {}, { ExistingModel } }
    /\ deckNames \in InitialDecks
    /\ notes \in [ Pairs -> 0..2 ]
    /\ stmt = 0
    /\ failure = ""
    /\ calls = << >>
    /\ existingRead = << >>
    /\ deckStatus = << >>
    /\ deckReport = << >>
    /\ filtered = << >>
    /\ writeResults = << >>
    /\ report = << >>
    /\ run = 1
    /\ notes0 = notes
    /\ prev = PrevNone

\* no call of invoke is looked at on its own
InvokeIdle ==
    /\ response = NoResponse
    /\ outcome = NotCalled

\* main() of the sync script was started directly, not by the release workflow
ReleaseIdle ==
    /\ step = "none"
    /\ requested = << >>
    /\ export_result = NoExport
    /\ deck_stats = NoStats
    /\ token = FALSE
    /\ released = ""
    /\ github_status = << >>

\* the add-on is not part of the run
AddonIdle ==
    /\ workers = << >>
    /\ triggers = 0

\* no build of the add-on package is part of the run
BuildIdle ==
    /\ source_dir = [ exists |-> FALSE, files |-> {} ]
    /\ manifest = [ ok |-> FALSE, version |-> Version0 ]
    /\ archive = << >>
    /\ packages = [ old |-> 0, removed |-> 0 ]
    /\ build = NoBuild

\* export_deck_apkg of the exporter plugin is not called
ExporterIdle ==
    /\ col = {}
    /\ allowed_decks = << >>
    /\ disk = NoDisk
    /\ export = NoExportCall

\* none of the developer tools is part of the run
ToolsIdle == BuildIdle /\ ExporterIdle

\* python create_spanish_decks_via_ankiconnect.py
Init == SyncInit /\ InvokeIdle /\ ReleaseIdle /\ AddonIdle /\ ToolsIdle

\* main() is about to run the statement `name`
At(name) ==
    /\ failure = ""
    /\ stmt < Len(MainSequence)
    /\ MainSequence[stmt + 1] = name

\* invoke() raised: the exception leaves main()
Raise(kind, posted) ==
    /\ failure' = kind
    /\ calls' = posted
    /\ UNCHANGED << outside, catalog, deckReport, models, deckNames, notes, stmt, existingRead, deckStatus,
                    filtered, writeResults, report, run, notes0, prev >>

EnsureModelExists ==
    /\ At("ensure_model_exists")
    /\ \E o1 \in InvokeOutcomes :
        LET c1 == Append(calls, Request("modelNames", NoParams)) IN
        \/ o1 # "ok" /\ Raise(o1, c1)
        \/ /\ o1 = "ok"
           /\ ~ModelMissing(ModelNames(models))
           /\ calls' = c1
           /\ stmt' = stmt + 1
           /\ UNCHANGED << outside, catalog, deckReport, models, deckNames, notes, failure, existingRead,
                           deckStatus, filtered, writeResults, report, run, notes0, prev >>
        \/ /\ o1 = "ok"
           /\ ModelMissing(ModelNames(models))
           /\ \E o2 \in InvokeOutcomes :
               LET c2 == Append(c1, Request("createModel", ModelDefinition)) IN
               \/ o2 # "ok" /\ Raise(o2, c2)
               \/ /\ o2 = "ok"
                  /\ models' = models \cup { ModelDefinition }
                  /\ calls' = c2
                  /\ stmt' = stmt + 1
                  /\ UNCHANGED << outside, catalog, deckReport, deckNames, notes, failure, existingRead,
                                  deckStatus, filtered, writeResults, report, run,
                                  notes0, prev >>

CreateDecks ==
    /\ At("create_decks")
    /\ \E o1 \in InvokeOutcomes :
        LET c1 == Append(calls, Request("deckNames", NoParams))
            actions == MissingDecks(deckNames)
        IN
        \/ o1 # "ok" /\ Raise(o1, c1)
        \/ /\ o1 = "ok"
           /\ actions = << >>
           /\ calls' = c1
           /\ existingRead' = << deckNames >>
           /\ stmt' = stmt + 1
           /\ UNCHANGED << outside, catalog, deckReport, models, deckNames, notes, failure, deckStatus,
                           filtered, writeResults, report, run, notes0, prev >>
        \/ /\ o1 = "ok"
           /\ actions # << >>
           /\ \E o2 \in InvokeOutcomes :
               LET c2 == Append(c1, Request("multi", [ actions |-> actions ])) IN
               \/ /\ o2 # "ok"
                  /\ failure' = o2
                  /\ calls' = c2
                  /\ existingRead' = << deckNames >>
                  /\ UNCHANGED << outside, catalog, deckReport, models, deckNames, notes, stmt, deckStatus,
                                  filtered, writeResults, report, run, notes0, prev >>
               \/ /\ o2 = "ok"
                  /\ \E failing \in SUBSET (1..Len(actions)) :
                      /\ deckNames' = deckNames \cup
                            { actions[k].params.deck : k \in (1..Len(actions)) \ failing }
                      /\ deckStatus' = MultiResults(Len(actions), failing)
                      /\ deckReport' = DeckReport(actions, MultiResults(Len(actions), failing))
                  /\ calls' = c2
                  /\ existingRead' = << deckNames >>
                  /\ stmt' = stmt + 1
                  /\ UNCHANGED << outside, catalog, models, notes, failure, filtered,
                                  writeResults, report, run, notes0, prev >>

FilterAddableNotesAllDecks ==
    /\ At("filter_addable_notes_all_decks")
    /\ \E o1 \in InvokeOutcomes :
        LET multi_actions == BuildCheckActions(catalog)
            c1 == Append(calls, Request("multi", [ actions |-> multi_actions ]))
        IN
        \/ o1 # "ok" /\ Raise(o1, c1)
        \/ /\ o1 = "ok"
           /\ \E form \in { "null", "object" } :
               LET results == [ k \in 1..Len(multi_actions) |->
                                  RemoteCanAdd(multi_actions[k].params.notes, form,
                                               models, deckNames, notes) ]
               IN  filtered' = FilterOutput(catalog, results)
           /\ calls' = c1
           /\ stmt' = stmt + 1
           /\ UNCHANGED << outside, catalog, deckReport, models, deckNames, notes, failure, existingRead,
                           deckStatus, writeResults, report, run, notes0, prev >>

\* add_notes_all_decks leaving main() with an exception when the multi call
\* answers with a refused group
AddNotesAllDecksRaisingOnRefusal ==
    /\ At("add_notes_all_decks")
    /\ LET multi_actions == BuildWriteActions(filtered) IN
        \/ /\ multi_actions = << >>
           /\ stmt' = stmt + 1
           /\ UNCHANGED << outside, catalog, deckReport, models, deckNames, notes, failure, calls,
                           existingRead, deckStatus, filtered, writeResults, report,
                           run, notes0, prev >>
        \/ /\ multi_actions # << >>
           /\ \E o1 \in InvokeOutcomes :
               LET c1 == Append(calls, Request("multi", [ actions |-> multi_actions ])) IN
               \/ o1 # "ok" /\ Raise(o1, c1)
               \/ /\ o1 = "ok"
                  /\ \E failing \in SUBSET (1..Len(multi_actions)) :
                      LET results == MultiResults(Len(multi_actions), failing) IN
                      /\ notes' = RemoteMultiAdd(multi_actions, 1, failing,
                                                 models, deckNames, notes)
                      /\ writeResults' = results
                      /\ report' = ReportLines(filtered, results)
                      /\ stmt' = IF failing = {} THEN stmt + 1 ELSE stmt
                      /\ failure' = IF failing = {} THEN failure ELSE "refused"
                  /\ calls' = c1
                  /\ UNCHANGED << outside, catalog, deckReport, models, deckNames, existingRead,
                                  deckStatus, filtered, run, notes0, prev >>

AddNotesAllDecks ==
    /\ At("add_notes_all_decks")
    /\ LET multi_actions == BuildWriteActions(filtered) IN
        \/ /\ multi_actions = << >>
           /\ stmt' = stmt + 1
           /\ UNCHANGED << outside, catalog, deckReport, models, deckNames, notes, failure, calls,
                           existingRead, deckStatus, filtered, writeResults, report,
                           run, notes0, prev >>
        \/ /\ multi_actions # << >>
           /\ \E o1 \in InvokeOutcomes :
               LET c1 == Append(calls, Request("multi", [ actions |-> multi_actions ])) IN
               \/ o1 # "ok" /\ Raise(o1, c1)
               \/ /\ o1 = "ok"
                  /\ \E failing \in SUBSET (1..Len(multi_actions)) :
                      LET results == MultiResults(Len(multi_actions), failing) IN
                      /\ notes' = RemoteMultiAdd(multi_actions, 1, failing,
                                                 models, deckNames, notes)
                      /\ writeResults' = results
                      /\ report' = ReportLines(filtered, results)
                  /\ calls' = c1
                  /\ stmt' = stmt + 1
                  /\ UNCHANGED << outside, catalog, deckReport, models, deckNames, failure, existingRead,
                                  deckStatus, filtered, run, notes0, prev >>

\* the closing prints of main()
PrintSummary ==
    /\ At("print_summary")
    /\ stmt' = stmt + 1
    /\ UNCHANGED << outside, catalog, deckReport, models, deckNames, notes, failure, calls, existingRead,
                    deckStatus, filtered, writeResults, report, run, notes0, prev >>

\* the script is run again, with the same catalog, on the collection as the
\* first run left it
RunAgain ==
    /\ run = 1
    /\ failure = ""
    /\ stmt = Len(MainSequence)
    /\ run' = run + 1
    /\ stmt' = 0
    /\ calls' = << >>
    /\ existingRead' = << >>
    /\ deckStatus' = << >>
    /\ deckReport' = << >>
    /\ filtered' = << >>
    /\ writeResults' = << >>
    /\ report' = << >>
    /\ notes0' = notes
    /\ prev' = [ ran |-> TRUE, decksOk |-> AllOk(deckStatus),
                 writesOk |-> AllOk(writeResults), writes |-> WritesIn(calls) ]
    /\ UNCHANGED << outside, catalog, models, deckNames, notes, failure >>

Next ==
    \/ EnsureModelExists
    \/ CreateDecks
    \/ FilterAddableNotesAllDecks
    \/ AddNotesAllDecks
    \/ PrintSummary
    \/ RunAgain

Spec == Init /\ [][Next]_vars

\* nothing of the sync run is running
SyncIdle ==
    /\ catalog = << >>
    /\ models = {}
    /\ deckNames = {}
    /\ notes = [ p \in Pairs |-> 0 ]
    /\ stmt = 0
    /\ failure = ""
    /\ calls = << >>
    /\ existingRead = << >>
    /\ deckStatus = << >>
    /\ deckReport = << >>
    /\ filtered = << >>
    /\ writeResults = << >>
    /\ report = << >>
    /\ run = 1
    /\ notes0 = notes
    /\ prev = PrevNone

----------------------------------------------------------------------------
(* update_export_and_release.main(): sync, export, statistics, release *)

\* main() starts step 0 on a collection without notes
ReleaseInit ==
    /\ SyncInit
    /\ notes = [ p \in Pairs |-> 0 ]
    /\ InvokeIdle
    /\ AddonIdle
    /\ ToolsIdle
    /\ step = "sync"
    /\ requested = << >>
    /\ export_result = NoExport
    /\ deck_stats = NoStats
    /\ token \in BOOLEAN
    /\ released = ""
    /\ github_status = << >>

\* step 0 returned: create_spanish_decks_via_ankiconnect.main() ended without
\* an exception
SyncCompleted ==
    /\ step = "sync"
    /\ failure = ""
    /\ stmt = Len(MainSequence)
    /\ step' = "export"
    /\ UNCHANGED << toolVars, syncVars, invokeVars, addonVars, requested, export_result,
                    deck_stats, token, released, github_status >>

\* step 0 raised and main() goes on with step 1 all the same
ProcessFailedExporting ==
    /\ step = "sync"
    /\ failure # ""
    /\ step' = "export"
    /\ UNCHANGED << toolVars, syncVars, invokeVars, addonVars, requested, export_result,
                    deck_stats, token, released, github_status >>

\* step 0 raised: the except clause of main() prints the failure and main() ends
ProcessFailed ==
    /\ step = "sync"
    /\ failure # ""
    /\ step' = "failed"
    /\ UNCHANGED << toolVars, syncVars, invokeVars, addonVars, requested, export_result,
                    deck_stats, token, released, github_status >>

\* step 1: export_deck asks AnkiConnect, then the plugin's server when that
\* did not give a success; main() returns when neither did
ExportDeck ==
    /\ step = "export"
    /\ LET r1 == Append(requested, Post("ankiconnect", "exportDeckApkg", ROOT_DECK))
           r2 == Append(r1, Post("plugin", "exportDeckApkg", ROOT_DECK))
       IN
       \E o1 \in InvokeOutcomes, success1 \in BOOLEAN :
        \/ /\ o1 = "ok" /\ success1
           /\ requested' = r1
           /\ export_result' = [ success |-> TRUE, via |-> "ankiconnect" ]
           /\ step' = "stats"
        \/ /\ ~(o1 = "ok" /\ success1)
           /\ requested' = r2
           /\ \E success2 \in BOOLEAN :
               /\ export_result' = [ success |-> success2,
                                     via |-> IF success2 THEN "plugin" ELSE "" ]
               /\ step' = IF success2 THEN "stats" ELSE "export_failed"
    /\ UNCHANGED << toolVars, syncVars, invokeVars, addonVars, deck_stats, token, released, github_status >>

\* the decks get_deck_stats asks findCards for, in the order of the list
SpanishDecks(deck_names) ==
    SelectSeq([ i \in 1..Len(SUBDECKS) |-> FullName(SUBDECKS[i]) ],
              LAMBDA d : d \in deck_names)

\* the findCards requests of get_deck_stats
FindCards(decks) ==
    [ i \in 1..Len(decks) |-> Post("ankiconnect", "findCards", decks[i]) ]

\* step 2: get_deck_stats; a failure of deckNames gives zero statistics, a
\* failure of a findCards leaves that deck out, and main() goes on either way
GetDeckStats ==
    /\ step = "stats"
    /\ LET r1 == Append(requested, Post("ankiconnect", "deckNames", ""))
           spanish_decks == SpanishDecks(deckNames)
       IN
       \E o1 \in InvokeOutcomes :
        \/ /\ o1 # "ok"
           /\ requested' = r1
           /\ deck_stats' = ZeroStats
        \/ /\ o1 = "ok"
           /\ requested' = r1 \o FindCards(spanish_decks)
           /\ \E failing \in SUBSET (1..Len(spanish_decks)) :
               deck_stats' =
                    [ deck_count |-> Len(spanish_decks),
                      counted |-> { spanish_decks[i] :
                                      i \in (1..Len(spanish_decks)) \ failing },
                      failed |-> FALSE ]
    /\ step' = "release"
    /\ UNCHANGED << toolVars, syncVars, invokeVars, addonVars, export_result, token, released,
                    github_status >>

\* the answers GitHub can give to a request: created, refused, no connection
GithubOutcomes == { "201", "422", "unreachable" }

\* create_github_release going on to the upload whatever the answer was
UploadAttemptedAlways(status) == status = status

\* create_github_release goes on to the upload only after status 201
UploadAttempted(status) == status = "201"

\* step 3: create_github_release when GITHUB_TOKEN is set, else the release
\* is skipped; main() prints that the process completed
CreateGithubRelease ==
    /\ step = "release"
    /\ \/ /\ ~token
          /\ released' = "skipped"
          /\ UNCHANGED << requested, github_status >>
       \/ /\ token
          /\ LET r1 == Append(requested, Post("github", "releases", "create"))
                 r2 == Append(r1, Post("github", "releases", "upload"))
             IN
             \E g1 \in GithubOutcomes :
              \/ /\ ~UploadAttempted(g1)
                 /\ requested' = r1
                 /\ github_status' = << g1 >>
                 /\ released' = "failed"
              \/ /\ UploadAttempted(g1)
                 /\ requested' = r2
                 /\ \E g2 \in GithubOutcomes :
                     /\ github_status' = << g1, g2 >>
                     /\ released' = IF g2 = "201" THEN "created" ELSE "failed"
    /\ step' = "completed"
    /\ UNCHANGED << toolVars, syncVars, invokeVars, addonVars, export_result, deck_stats, token >>

ReleaseNext ==
    \/ EnsureModelExists
    \/ CreateDecks
    \/ FilterAddableNotesAllDecks
    \/ AddNotesAllDecks
    \/ PrintSummary
    \/ SyncCompleted
    \/ ProcessFailed
    \/ ExportDeck
    \/ GetDeckStats
    \/ CreateGithubRelease

ReleaseSpec == ReleaseInit /\ [][ReleaseNext]_vars

----------------------------------------------------------------------------
(* the add-on: menu action, background threads, script subprocesses *)

\* the add-on is loaded and the menu action has not been triggered
AddonInit ==
    /\ workers = << >>
    /\ triggers = 0
    /\ SyncIdle
    /\ InvokeIdle
    /\ ReleaseIdle
    /\ ToolsIdle

\* a thread as threading.Thread(...).start() leaves it. `posted` counts the
\* requests its script subprocess has posted and `waiting` says that the last
\* one is not answered yet; `confirmation` is how the run got past the
\* prompt; `temp_dir` and `files` are the temporary directory and the
\* downloads in it; `process` is the script subprocess; `dialogs` are the
\* dialogs the run has caused; `warning` says that the clean-up failed.
NewWorker ==
    [ pc |-> "started", posted |-> 0, waiting |-> FALSE, confirmation |-> "",
      temp_dir |-> "none", files |-> {}, process |-> "none",
      dialogs |-> { [ kind |-> "started", thread |-> "main" ] },
      warning |-> FALSE ]

\* the two files a run downloads
Downloads == { "create_spanish_decks_via_ankiconnect.py", "decks_data.py" }

\* askUser, called where the run is: in the background thread
AskUser == [ kind |-> "confirm", thread |-> "worker" ]

\* _show_info_thread_safe / _show_error_thread_safe: the dialog is handed to
\* the main thread with QTimer.singleShot
ThreadSafe(kind) == [ kind |-> kind, thread |-> "main" ]

\* the run goes on after the prompt, whatever the answer
ConfirmedAlways(answer) == answer = answer

\* the run goes on after the prompt: auto_confirm, or askUser returned True
Confirmed(answer) == answer \in { "auto_confirm", "yes" }

\* the finally clause leaving the temporary directory where it is
FinallyNothing(worker, rmtree_ok) == worker

\* the finally clause: shutil.rmtree of the temporary directory when there is
\* one; a failure of rmtree is logged as a warning and the directory stays
Finally(worker, rmtree_ok) ==
    IF worker.temp_dir # "exists" THEN worker
    ELSE IF rmtree_ok THEN [ worker EXCEPT !.temp_dir = "removed", !.files = {} ]
    ELSE [ worker EXCEPT !.warning = TRUE ]

\* terminate() alone, whether or not the subprocess exits
AfterTerminateOnly(graceful) == IF graceful THEN "terminated" ELSE "running"

\* terminate(), wait 10 seconds, kill() and wait() when it has not exited
AfterTerminate(graceful) == IF graceful THEN "terminated" ELSE "killed"

\* the threads whose script subprocess is running
Running == { w \in 1..Len(workers) : workers[w].process = "running" }

\* the threads whose script subprocess waits for the answer to a request
Outstanding == { w \in 1..Len(workers) : workers[w].waiting }

\* the positions at which _download_and_execute_script_impl has returned
Returned_pcs ==
    { "cancelled", "download_failed", "execution_failed", "finished", "timed_out" }

\* download_and_execute_script: the menu action starts a new daemon thread
\* each time, whatever the threads started before are doing, and shows the
\* "started in background" dialog
DownloadAndExecuteScript ==
    /\ triggers < MaxTriggers
    /\ triggers' = triggers + 1
    /\ workers' = Append(workers, NewWorker)
    /\ UNCHANGED << toolVars, syncVars, invokeVars, releaseVars >>

\* auto_confirm, or the answer to askUser; "no" ends the run before the
\* temporary directory is made
Confirm(w) ==
    /\ workers[w].pc = "started"
    /\ \E answer \in { "auto_confirm", "yes", "no" } :
        workers' = [ workers EXCEPT ![w] =
            [ @ EXCEPT !.pc = IF Confirmed(answer) THEN "confirmed" ELSE "cancelled",
                       !.confirmation = answer,
                       !.dialogs = IF answer = "auto_confirm" THEN @
                                   ELSE @ \cup { AskUser } ] ]
    /\ UNCHANGED << triggers, toolVars, syncVars, invokeVars, releaseVars >>

\* mkdtemp and the two downloads, the main script first; a failure of either
\* is raised to the outer except: error dialog, clean-up, return
Download(w) ==
    /\ workers[w].pc = "confirmed"
    /\ \E got \in { {}, { "create_spanish_decks_via_ankiconnect.py" }, Downloads },
          rmtree_ok \in BOOLEAN :
        LET made == [ workers[w] EXCEPT !.temp_dir = "exists", !.files = got ] IN
        workers' = [ workers EXCEPT ![w] =
            IF got = Downloads
            THEN [ made EXCEPT !.pc = "downloaded" ]
            ELSE Finally([ made EXCEPT !.pc = "download_failed",
                                       !.dialogs = @ \cup { ThreadSafe("error") } ],
                         rmtree_ok) ]
    /\ UNCHANGED << triggers, toolVars, syncVars, invokeVars, releaseVars >>

\* subprocess.Popen of the downloaded script; an exception there goes to the
\* inner except: error dialog, clean-up, return
StartScript(w) ==
    /\ workers[w].pc = "downloaded"
    /\ \E popen_ok \in BOOLEAN, rmtree_ok \in BOOLEAN :
        workers' = [ workers EXCEPT ![w] =
            IF popen_ok
            THEN [ @ EXCEPT !.pc = "running", !.process = "running" ]
            ELSE Finally([ @ EXCEPT !.pc = "execution_failed",
                                    !.dialogs = @ \cup { ThreadSafe("error") } ],
                         rmtree_ok) ]
    /\ UNCHANGED << triggers, toolVars, syncVars, invokeVars, releaseVars >>

\* the script posts its next request; invoke blocks until the answer
ScriptPosts(w) ==
    /\ workers[w].pc = "running"
    /\ ~workers[w].waiting
    /\ workers[w].posted < MaxRequests
    /\ workers' = [ workers EXCEPT ![w].posted = @ + 1, ![w].waiting = TRUE ]
    /\ UNCHANGED << triggers, toolVars, syncVars, invokeVars, releaseVars >>

\* the remote answers the request of the script
RemoteAnswers(w) ==
    /\ workers[w].pc = "running"
    /\ workers[w].waiting
    /\ workers' = [ workers EXCEPT ![w].waiting = FALSE ]
    /\ UNCHANGED << triggers, toolVars, syncVars, invokeVars, releaseVars >>

\* the script exits before the timeout: success dialog for return code 0,
\* error dialog otherwise, then clean-up and return
ScriptExits(w) ==
    /\ workers[w].pc = "running"
    /\ ~workers[w].waiting
    /\ \E returncode \in { 0, 1 }, rmtree_ok \in BOOLEAN :
        workers' = [ workers EXCEPT ![w] =
            Finally([ @ EXCEPT !.pc = "finished",
                               !.process = "exited",
                               !.dialogs = @ \cup { IF returncode = 0
                                                    THEN ThreadSafe("success")
                                                    ELSE ThreadSafe("error") } ],
                    rmtree_ok) ]
    /\ UNCHANGED << triggers, toolVars, syncVars, invokeVars, releaseVars >>

\* the timeout passes while the script runs: terminate, kill if needed, the
\* timeout dialog, then clean-up and return
ScriptTimesOut(w) ==
    /\ workers[w].pc = "running"
    /\ \E graceful \in BOOLEAN, rmtree_ok \in BOOLEAN :
        workers' = [ workers EXCEPT ![w] =
            Finally([ @ EXCEPT !.pc = "timed_out",
                               !.process = AfterTerminate(graceful),
                               !.waiting = FALSE,
                               !.dialogs = @ \cup { ThreadSafe("timeout") } ],
                    rmtree_ok) ]
    /\ UNCHANGED << triggers, toolVars, syncVars, invokeVars, releaseVars >>

AddonNext ==
    \/ DownloadAndExecuteScript
    \/ \E w \in 1..Len(workers) : Confirm(w)
    \/ \E w \in 1..Len(workers) : Download(w)
    \/ \E w \in 1..Len(workers) : StartScript(w)
    \/ \E w \in 1..Len(workers) : ScriptPosts(w)
    \/ \E w \in 1..Len(workers) : RemoteAnswers(w)
    \/ \E w \in 1..Len(workers) : ScriptExits(w)
    \/ \E w \in 1..Len(workers) : ScriptTimesOut(w)

AddonSpec == AddonInit /\ [][AddonNext]_vars

----------------------------------------------------------------------------
(* build_addon.py: AddonBuilder.build *)

\* nothing but the build is running
NotBuild == << syncVars, invokeVars, releaseVars, addonVars, exporterVars >>

\* the source directories a build can meet: none, or one with any files
SourceDirs ==
    { [ exists |-> FALSE, files |-> {} ] }
        \cup { [ exists |-> TRUE, files |-> fs ] : fs \in SUBSET FileNames }

\* build(increment_version, clean) is called
BuildInit ==
    /\ source_dir \in SourceDirs
    /\ manifest \in [ ok : BOOLEAN, version : { Version0 } ]
    /\ archive = << >>
    /\ packages \in [ old : 0..MaxOldPackages, removed : { 0 } ]
    /\ build \in [ pc : { "validate" }, increment_version : { "", "minor", "patch" },
                   clean : BOOLEAN, error : { "" }, names : { {} } ]
    /\ SyncIdle
    /\ InvokeIdle
    /\ ReleaseIdle
    /\ AddonIdle
    /\ ExporterIdle

\* the except clause of build: the failure is printed and the process exits
BuildFailed(error, names) ==
    build' = [ build EXCEPT !.pc = "failed", !.error = error, !.names = names ]

\* load_manifest succeeds: manifest.json is there, parses and has its keys
ManifestLoads == "manifest.json" \in source_dir.files /\ manifest.ok

ValidateSourceDirectory ==
    /\ build.pc = "validate"
    /\ IF ~source_dir.exists
       THEN BuildFailed("Source directory not found", { SourceDirName })
       ELSE IF MissingFiles(source_dir.files) # << >>
       THEN BuildFailed("Missing required files", Range(MissingFiles(source_dir.files)))
       ELSE build' = [ build EXCEPT !.pc = "increment" ]
    /\ UNCHANGED << source_dir, manifest, archive, packages, NotBuild >>

IncrementVersion ==
    /\ build.pc = "increment"
    /\ IF build.increment_version = ""
       THEN /\ build' = [ build EXCEPT !.pc = "create" ]
            /\ UNCHANGED manifest
       ELSE IF ~ManifestLoads
       THEN /\ BuildFailed("Failed to load manifest.json", { "manifest.json" })
            /\ UNCHANGED manifest
       ELSE /\ manifest' = [ manifest EXCEPT
                               !.version = NewVersion(@, build.increment_version) ]
            /\ build' = [ build EXCEPT !.pc = "create" ]
    /\ UNCHANGED << source_dir, archive, packages, NotBuild >>

CreatePackage ==
    /\ build.pc = "create"
    /\ IF ~ManifestLoads
       THEN /\ BuildFailed("Failed to load manifest.json", { "manifest.json" })
            /\ UNCHANGED archive
       ELSE /\ archive' = << WalkFiles(source_dir.files) >>
            /\ build' = [ build EXCEPT !.pc = "verify" ]
    /\ UNCHANGED << source_dir, manifest, packages, NotBuild >>

\* verify_package, and the RuntimeError build raises when it returns False
VerifyPackage ==
    /\ build.pc = "verify"
    /\ \E corrupt \in BOOLEAN :
        IF corrupt
        THEN BuildFailed("Package verification failed", { "corrupt member" })
        ELSE IF MissingRequired(archive[1]) # << >>
        THEN BuildFailed("Package verification failed", Range(MissingRequired(archive[1])))
        ELSE build' = [ build EXCEPT !.pc = "clean" ]
    /\ UNCHANGED << source_dir, manifest, archive, packages, NotBuild >>

\* clean_old_packages when asked for, then the success message; the package
\* just written is the newest and is kept
CleanOldPackages ==
    /\ build.pc = "clean"
    /\ packages' = [ packages EXCEPT
                       !.removed = IF build.clean THEN FilesToRemove(packages.old + 1)
                                   ELSE 0 ]
    /\ build' = [ build EXCEPT !.pc = "succeeded" ]
    /\ UNCHANGED << source_dir, manifest, archive, NotBuild >>

BuildNext ==
    \/ ValidateSourceDirectory
    \/ IncrementVersion
    \/ CreatePackage
    \/ VerifyPackage
    \/ CleanOldPackages

BuildSpec == BuildInit /\ [][BuildNext]_vars

----------------------------------------------------------------------------
(* anki_deck_exporter: one call of export_deck_apkg *)

\* export_deck_apkg is about to be called with any deck name, with or
\* without an output path, on any collection and configuration
ExporterInit ==
    /\ col \in SUBSET DeckNames
    /\ allowed_decks \in AllowedDeckLists
    /\ disk = NoDisk
    /\ export \in [ impl : { "" }, deck_name : DeckNames,
                    output_path : { "", "out/deck.apkg" }, before : { col },
                    returned : { FALSE }, success : { FALSE }, error : { "" },
                    lookups : { 0 }, exporters : { 0 } ]
    /\ SyncIdle
    /\ InvokeIdle
    /\ ReleaseIdle
    /\ AddonIdle
    /\ BuildIdle

\* the call has returned with outcome `did`
ExportReturns(impl, did) ==
    /\ col' = did.decks
    /\ disk' = did.disk
    /\ export' = [ export EXCEPT !.impl = impl, !.returned = TRUE,
                                 !.success = did.result.success,
                                 !.error = did.result.error,
                                 !.lookups = did.lookups,
                                 !.exporters = did.exporters ]
    /\ UNCHANGED << allowed_decks, buildVars, syncVars, invokeVars, releaseVars, addonVars >>

\* the action exportDeckApkg as the plugin class serves it
CallDeckExporter ==
    /\ ~export.returned
    /\ \E exporting \in { "written", "not_written", "raised" } :
        ExportReturns("DeckExporter",
            DeckExporterExportDeckApkg(export.deck_name, export.output_path,
                                       allowed_decks, col, exporting))

\* the action exportDeckApkg as ankiconnect_integration serves it
CallIntegration ==
    /\ ~export.returned
    /\ \E exporting \in { "written", "not_written", "raised" } :
        ExportReturns("ankiconnect_integration",
            IntegrationExportDeckApkg(export.deck_name, export.output_path,
                                      allowed_decks, col, exporting))

ExporterNext == CallDeckExporter \/ CallIntegration

ExporterSpec == ExporterInit /\ [][ExporterNext]_vars

\* a call of invoke or invoke_ankiconnect on any response
InvokeInit ==
    /\ response \in Responses
    /\ outcome = NotCalled
    /\ SyncIdle
    /\ ReleaseIdle
    /\ AddonIdle
    /\ ToolsIdle

CallInvoke ==
    /\ outcome = NotCalled
    /\ outcome' = [ fn |-> "invoke", res |-> Invoke(response) ]
    /\ UNCHANGED << response, toolVars, syncVars, releaseVars, addonVars >>

CallInvokeAnkiconnect ==
    /\ outcome = NotCalled
    /\ outcome' = [ fn |-> "invoke_ankiconnect", res |-> InvokeAnkiconnect(response) ]
    /\ UNCHANGED << response, toolVars, syncVars, releaseVars, addonVars >>

InvokeNext == CallInvoke \/ CallInvokeAnkiconnect

InvokeSpec == InvokeInit /\ [][InvokeNext]_vars

\* One statement of main(): the script is sequential, each statement runs as
\* soon as the one before it has returned, and a statement returns once the
\* remote has answered its calls.
Statement ==
    \/ EnsureModelExists
    \/ CreateDecks
    \/ FilterAddableNotesAllDecks
    \/ AddNotesAllDecks
    \/ PrintSummary

\* The sync run against a remote that answers every call
FairSpec == Spec /\ WF_vars(Statement)

----------------------------------------------------------------------------
(* Vocabulary of the properties *)

\* main() has completed the statement `name`
Done(name) == \E i \in 1..stmt : MainSequence[i] = name

\* main() returned
Reported == failure = "" /\ stmt = Len(MainSequence)

\* main() returned and no item of a batched call was refused
CleanRun == Reported /\ AllOk(deckStatus) /\ AllOk(writeResults)

CatalogPairs ==
    UNION { { catalog[k].cards[i] : i \in 1..Len(catalog[k].cards) }
            : k \in 1..Len(catalog) }

CatalogDecks == { FullName(catalog[k].name) : k \in 1..Len(catalog) }

\* the positions in `calls` of the requests of each kind
CallsOf(action) == { i \in 1..Len(calls) : calls[i].action = action }

CreateCalls == { i \in 1..Len(calls) : "createDeck" \in ActionsOf(calls[i]) }

WriteCalls == { i \in 1..Len(calls) : "addNotes" \in ActionsOf(calls[i]) }

\* a multi of checks only; for an empty catalog it carries no check at all
CheckCalls ==
    { i \in 1..Len(calls) :
        /\ calls[i].action = "multi"
        /\ ActionsOf(calls[i]) \subseteq { "canAddNotesWithErrorDetail" } }

----------------------------------------------------------------------------
(* C1: one record per catalog pair after a run without failure *)

\* C1 as stated: when a run has returned and no batched item was refused, the
\* collection holds exactly one note for every pair of the catalog, whatever
\* the collection held before.
C1_ExactlyOneRecordPerPair ==
    CleanRun => \A p \in CatalogPairs : notes[p] = 1

\* C1 amended: when a run has returned and no batched item was refused, the run
\* has added exactly one note for every catalog pair the collection did not
\* hold and none for any other pair; so every catalog pair is stored, and it is
\* stored once unless the collection already held it more than once.
C1_RunAddsEachMissingPairOnce ==
    CleanRun =>
        \A p \in Pairs :
            notes[p] = IF p \in CatalogPairs /\ notes0[p] = 0 THEN 1 ELSE notes0[p]

\* a clean first run on a catalog holding the same pair in its two
\* categories, the pair being new to the collection
C1_Witness ==
    /\ CleanRun
    /\ run = 1
    /\ Len(catalog) = 2
    /\ \E p \in Pairs :
        /\ catalog[1].cards = << p >>
        /\ catalog[2].cards = << p >>
        /\ notes0[p] = 0
        /\ notes[p] = 1
        /\ WriteCalls # {}

----------------------------------------------------------------------------
(* C2: a second run after a successful one writes nothing *)

AllSkipped ==
    /\ Len(filtered) = Len(catalog)
    /\ \A k \in 1..Len(filtered) :
        /\ filtered[k].addable = << >>
        /\ filtered[k].skipped = Len(catalog[k].cards)

\* C2: in a run started after a run that returned with no batched item
\* refused, no createDeck and no addNotes request is posted, and once the
\* duplicate check is done every pair of the catalog is counted as skipped.
C2_SecondRunWritesNothing ==
    (run = 2 /\ prev.decksOk /\ prev.writesOk) =>
        /\ CreateCalls = {}
        /\ WriteCalls = {}
        /\ Done("filter_addable_notes_all_decks") => AllSkipped

\* the second run has returned; the first one created decks and added notes
\* of two categories
C2_Witness ==
    /\ run = 2
    /\ prev.decksOk /\ prev.writesOk
    /\ { "createDeck", "addNotes" } \subseteq prev.writes
    /\ Reported
    /\ Len(catalog) = 2
    /\ \A k \in 1..Len(catalog) : catalog[k].cards # << >>
    /\ AllSkipped

----------------------------------------------------------------------------
(* C3: the containers a run requires *)

\* the decks named in the createDeck requests posted in this run
RequestedDecks ==
    UNION { { calls[i].params.actions[k].params.deck
              : k \in 1..Len(calls[i].params.actions) } : i \in CreateCalls }

----------------------------------------------------------------------------
(* C4: provisioning a second time *)

----------------------------------------------------------------------------
(* C5: provisioning precedes checking and writing *)

\* the statement of main() a posted request belongs to
PhaseOf(c) ==
    IF c.action \in { "modelNames", "createModel" } THEN 1
    ELSE IF c.action = "deckNames" \/ "createDeck" \in ActionsOf(c) THEN 2
    ELSE IF "addNotes" \in ActionsOf(c) THEN 4
    ELSE 3

\* C5: the requests of a run are posted in the order schema, decks, check,
\* write; when a check or a write is posted the model exists in the
\* collection, modelNames and deckNames have been answered and create_decks
\* has returned.
C5_ProvisioningBeforeCheckAndWrite ==
    /\ \A i, j \in 1..Len(calls) : i < j => PhaseOf(calls[i]) <= PhaseOf(calls[j])
    /\ \A j \in CheckCalls \cup WriteCalls :
        /\ MODEL_NAME \in ModelNames(models)
        /\ \E i \in CallsOf("modelNames") : i < j
        /\ \E i \in CallsOf("deckNames") : i < j
        /\ existingRead # << >>
        /\ Done("ensure_model_exists") /\ Done("create_decks")

\* a run that created the model and decks, checked and wrote
C5_Witness ==
    /\ CallsOf("createModel") # {}
    /\ CreateCalls # {}
    /\ CheckCalls # {}
    /\ WriteCalls # {}
    /\ Reported

----------------------------------------------------------------------------
(* C6: create_decks reads once and creates the missing decks in one call *)

\* C6: create_decks posts deckNames once and at most one createDeck multi,
\* right after it; once the list is read, the multi is posted exactly when a
\* deck of SUBDECKS is not in the list, and its sub-requests are createDeck
\* requests for exactly the decks of SUBDECKS not in the list, each once.
C6_CreatesExactlyTheMissingDecks ==
    /\ Cardinality(CallsOf("deckNames")) <= 1
    /\ Cardinality(CreateCalls) <= 1
    /\ existingRead = << >> => CreateCalls = {}
    /\ existingRead # << >> =>
        LET missing == AllDeckNames \ existingRead[1] IN
        /\ Cardinality(CallsOf("deckNames")) = 1
        /\ (missing = {}) <=> (CreateCalls = {})
        /\ \A i \in CreateCalls :
            /\ i - 1 \in CallsOf("deckNames")
            /\ ActionsOf(calls[i]) = { "createDeck" }
            /\ RequestedDecks = missing
            /\ Len(calls[i].params.actions) = Cardinality(missing)

\* create_decks found one of the three decks and requested the two others
C6_Witness ==
    /\ Done("create_decks")
    /\ existingRead = << { FullName(SUBDECKS[1]) } >>
    /\ Cardinality(CreateCalls) = 1
    /\ RequestedDecks = { FullName(SUBDECKS[2]), FullName(SUBDECKS[3]) }

----------------------------------------------------------------------------
(* C7: the duplicate check is one batched call *)

\* C7: filter_addable_notes_all_decks posts exactly one request, a multi
\* holding one canAddNotesWithErrorDetail request per category of the
\* catalog, in order, each with one probe per card of that category, in order.
C7_OneBatchedCheck ==
    /\ Cardinality(CheckCalls) <= 1
    /\ Done("filter_addable_notes_all_decks") => Cardinality(CheckCalls) = 1
    /\ \A c \in CheckCalls :
        LET acts == calls[c].params.actions IN
        /\ Len(acts) = Len(catalog)
        /\ \A k \in 1..Len(acts) :
            /\ acts[k].action = "canAddNotesWithErrorDetail"
            /\ Len(acts[k].params.notes) = Len(catalog[k].cards)
            /\ \A i \in 1..Len(acts[k].params.notes) :
                /\ PairOf(acts[k].params.notes[i]) = catalog[k].cards[i]
                /\ acts[k].params.notes[i].deckName = FullName(catalog[k].name)

\* the check has been made for a catalog of a category without cards and a
\* category with two
C7_Witness ==
    /\ Done("filter_addable_notes_all_decks")
    /\ Len(catalog) = 2
    /\ catalog[1].cards = << >>
    /\ Len(catalog[2].cards) = 2
    /\ Cardinality(CheckCalls) = 1

----------------------------------------------------------------------------
(* C8: the mapping returned has an entry for every category *)

\* C8: the mapping filter_addable_notes_all_decks returns has one entry per
\* category of the catalog, and the entry of a category without cards is
\* (no addable note, 0 skipped).
C8_EntryForEveryCategory ==
    Done("filter_addable_notes_all_decks") =>
        /\ Len(filtered) = Len(catalog)
        /\ \A k \in 1..Len(catalog) :
            \E e \in 1..Len(filtered) :
                /\ filtered[e].name = catalog[k].name
                /\ catalog[k].cards = << >> =>
                      (filtered[e].addable = << >> /\ filtered[e].skipped = 0)

\* the mapping returned for a catalog whose second category has no cards
C8_Witness ==
    /\ Done("filter_addable_notes_all_decks")
    /\ Len(catalog) = 2
    /\ catalog[1].cards # << >>
    /\ catalog[2].cards = << >>
    /\ Len(filtered) = 2
    /\ filtered[2] = [ name |-> catalog[2].name, addable |-> << >>, skipped |-> 0 ]

----------------------------------------------------------------------------
(* C9: pairs the collection already holds are skipped *)

\* C9: no note whose pair the collection held when the check was made is in
\* the addable list of any category, and the skipped count of a category is
\* at least the number of its cards whose pair the collection held.
C9_PresentPairsSkipped ==
    Done("filter_addable_notes_all_decks") =>
        \A k \in 1..Len(filtered) :
            /\ \A n \in 1..Len(filtered[k].addable) :
                notes0[PairOf(filtered[k].addable[n])] = 0
            /\ \A c \in 1..Len(catalog) :
                catalog[c].name = filtered[k].name =>
                    filtered[k].skipped >=
                        Cardinality({ i \in 1..Len(catalog[c].cards) :
                                        notes0[catalog[c].cards[i]] > 0 })

\* a category of two cards, the first held by the collection and skipped, the
\* second new and addable
C9_Witness ==
    /\ Done("filter_addable_notes_all_decks")
    /\ \E k \in 1..Len(filtered) :
        /\ Len(catalog[k].cards) = 2
        /\ notes0[catalog[k].cards[1]] > 0
        /\ notes0[catalog[k].cards[2]] = 0
        /\ filtered[k].skipped = 1
        /\ Len(filtered[k].addable) = 1
        /\ PairOf(filtered[k].addable[1]) = catalog[k].cards[2]

----------------------------------------------------------------------------
(* C10: addable = candidates - skipped, per category *)

\* the notes submitted for insertion into a deck: their places in the
\* addNotes requests posted
Submitted(deck) ==
    { << i, j, n >> \in WriteCalls \X (1..Len(CatalogKeys)) \X (1..MaxCards) :
        /\ j <= Len(calls[i].params.actions)
        /\ n <= Len(calls[i].params.actions[j].params.notes)
        /\ calls[i].params.actions[j].params.notes[n].deckName = deck }

----------------------------------------------------------------------------
(* C11: the results are applied by position *)

\* the cards of a category the collection accepts when the check is made,
\* in the order of the catalog
Acceptable(k) ==
    SelectSeq(catalog[k].cards,
              LAMBDA card : RemoteRefusal(NoteSpec(catalog[k].name, card),
                                          models, deckNames, notes0) = "")

\* C11: the k-th entry of the mapping returned is that of the k-th category,
\* and its addable list holds, in the order of the category's cards, the notes
\* of exactly the cards whose own probe the collection accepted.
C11_ResultsAppliedByPosition ==
    Done("filter_addable_notes_all_decks") =>
        /\ Len(filtered) = Len(catalog)
        /\ \A k \in 1..Len(filtered) :
            /\ filtered[k].name = catalog[k].name
            /\ Len(filtered[k].addable) = Len(Acceptable(k))
            /\ \A j \in 1..Len(filtered[k].addable) :
                filtered[k].addable[j] = NoteSpec(catalog[k].name, Acceptable(k)[j])

\* a category of two different cards, the first held by the collection and
\* the second not: the second alone is addable
C11_Witness ==
    /\ Done("filter_addable_notes_all_decks")
    /\ \E k \in 1..Len(filtered) :
        /\ Len(catalog[k].cards) = 2
        /\ catalog[k].cards[1] # catalog[k].cards[2]
        /\ notes0[catalog[k].cards[1]] > 0
        /\ notes0[catalog[k].cards[2]] = 0
        /\ filtered[k].addable = << NoteSpec(catalog[k].name, catalog[k].cards[2]) >>

----------------------------------------------------------------------------
(* C12: the insertion is one batched call, one group per non-empty list *)

\* the categories (places in `filtered`) that have addable notes
WithAddable == { k \in 1..Len(filtered) : filtered[k].addable # << >> }

\* C12: add_notes_all_decks posts at most one request; when it has returned,
\* it has posted one exactly when some category has addable notes; the request
\* is a multi of addNotes groups, none of them empty, one per category with
\* addable notes and holding that category's addable list, in order.
C12_OneWriteGroupPerNonEmptyCategory ==
    /\ Cardinality(WriteCalls) <= 1
    /\ Done("add_notes_all_decks") => ((WriteCalls = {}) <=> (WithAddable = {}))
    /\ \A c \in WriteCalls :
        LET acts == calls[c].params.actions IN
        /\ ActionsOf(calls[c]) = { "addNotes" }
        /\ Len(acts) = Cardinality(WithAddable)
        /\ \A j \in 1..Len(acts) : acts[j].params.notes # << >>
        /\ \A k \in WithAddable :
            Cardinality({ j \in 1..Len(acts) :
                            acts[j].params.notes = filtered[k].addable }) = 1
        /\ \A i, j \in 1..Len(acts) :
            i < j => \E k, l \in WithAddable :
                        /\ k < l
                        /\ acts[i].params.notes = filtered[k].addable
                        /\ acts[j].params.notes = filtered[l].addable

\* the insertion made for a catalog whose first category has nothing to add
\* and whose second has one note
C12_Witness ==
    /\ Done("add_notes_all_decks")
    /\ Len(filtered) = 2
    /\ WithAddable = { 2 }
    /\ \E c \in WriteCalls : Len(calls[c].params.actions) = 1

----------------------------------------------------------------------------
(* C13: the counts reported after the insertion *)

\* the lines printed for a deck
LinesOf(deck) == { i \in 1..Len(report) : report[i].deck = deck }

\* C13: when add_notes_all_decks has returned after posting its request, it
\* has printed, for every category a write group was submitted for, one line
\* giving the size of the category's addable list as added and the category's
\* skipped count.
C13_SubmittedCategoriesReported ==
    (Done("add_notes_all_decks") /\ WriteCalls # {}) =>
        \A k \in WithAddable :
            /\ Cardinality(LinesOf(FullName(filtered[k].name))) = 1
            /\ \A i \in LinesOf(FullName(filtered[k].name)) :
                /\ report[i].added = Len(filtered[k].addable)
                /\ report[i].skipped = filtered[k].skipped

----------------------------------------------------------------------------
(* C14: a refused write group and an accepted one in the same call *)

\* the category (place in `filtered`) of the j-th write group
CategoryOfGroup(j) ==
    CHOOSE k \in WithAddable : Cardinality({ l \in WithAddable : l < k }) = j - 1

\* C14: when the insertion call has answered with one group refused and
\* another accepted, no line reports the notes of the refused group's
\* category as added, and the line of the accepted group's category gives
\* its addable size and its skipped count.
C14_RefusedGroupReported ==
    (Done("add_notes_all_decks") /\ Len(writeResults) = 2) =>
        \A j, h \in 1..Len(writeResults) :
            (Truthy(writeResults[j]) /\ ~Truthy(writeResults[h])) =>
                /\ \A i \in LinesOf(FullName(filtered[CategoryOfGroup(j)].name)) :
                    report[i].added # Len(filtered[CategoryOfGroup(j)].addable)
                /\ \E i \in LinesOf(FullName(filtered[CategoryOfGroup(h)].name)) :
                    /\ report[i].added = Len(filtered[CategoryOfGroup(h)].addable)
                    /\ report[i].skipped = filtered[CategoryOfGroup(h)].skipped

----------------------------------------------------------------------------
(* C18: refused createDeck items *)

\* C18: when the createDeck multi has answered, create_decks has returned
\* without raising and has printed one line per requested deck, in order,
\* the line of a refused deck giving the error of that deck and the line of
\* no other deck giving an error; the statements after create_decks run as
\* after any other return.
C18_RefusedDecksSurfacedPerItem ==
    deckStatus # << >> =>
        /\ failure = "" \/ Done("create_decks")
        /\ Done("create_decks")
        /\ Len(deckReport) = Len(deckStatus)
        /\ \A c \in CreateCalls :
            /\ Len(deckReport) = Len(calls[c].params.actions)
            /\ \A k \in 1..Len(deckReport) :
                /\ deckReport[k].deck = calls[c].params.actions[k].params.deck
                /\ Truthy(deckStatus[k]) <=> (deckReport[k].status = deckStatus[k].error)
                /\ Truthy(deckStatus[k]) <=> (deckReport[k].status \notin { "ok", "id" })
        /\ (stmt = 2 /\ failure = "") => ENABLED FilterAddableNotesAllDecks

\* a run has returned after one of three createDeck items was refused: the
\* check and the insertion were made
C18_Witness ==
    /\ Reported
    /\ Len(deckStatus) = 3
    /\ Cardinality({ k \in 1..Len(deckStatus) : Truthy(deckStatus[k]) }) = 1
    /\ CheckCalls # {}
    /\ WriteCalls # {}

----------------------------------------------------------------------------
(* C15: the states of the sync run *)

\* the names the specification gives to the positions of main()
StateNames ==
    << "Idle", "SchemaEnsured", "ContainersEnsured", "Checked", "Inserted", "Reported" >>

\* the state of the run: the state reached by the statements that have returned
State == StateNames[stmt + 1]

StateIndex(name) == CHOOSE i \in 1..Len(StateNames) : StateNames[i] = name

\* within one run the state only moves to its successor in StateNames, and
\* only by the return of a statement that did not fail
LinearRun ==
    [][ run' = run =>
          \/ State' = State
          \/ /\ StateIndex(State') = StateIndex(State) + 1
             /\ failure = ""
             /\ failure' = "" ]_vars

\* each state is the state after its statement of main()
StatesFollowStatements ==
    /\ State = "Idle" <=> stmt = 0
    /\ State = "SchemaEnsured" => Done("ensure_model_exists") /\ ~Done("create_decks")
    /\ State = "ContainersEnsured" =>
            Done("create_decks") /\ ~Done("filter_addable_notes_all_decks")
    /\ State = "Checked" =>
            Done("filter_addable_notes_all_decks") /\ ~Done("add_notes_all_decks")
    /\ State = "Inserted" => Done("add_notes_all_decks") /\ ~Done("print_summary")
    /\ State = "Reported" <=> Done("print_summary")

\* refused write groups do not abort the run
RefusedGroupsNotFatal ==
    writeResults # << >> => failure = "" /\ StateIndex(State) >= StateIndex("Inserted")

\* C15 (as stated): the run visits Idle .. Reported in order, no state twice,
\* and reaches Reported whenever no transport failure occurs.
C15_ReportedUnlessTransportFailure ==
    /\ LinearRun
    /\ (State = "Idle") ~> (Reported \/ failure = "transport")

\* C15 (amended): the run visits Idle .. Reported in order, no state twice;
\* refused write groups do not abort it; and it reaches Reported unless a
\* remote call fails fatally, by a transport failure or by a top-level error
\* of the remote.
C15_LinearAndReportedUnlessFatal ==
    /\ LinearRun
    /\ [](StatesFollowStatements /\ RefusedGroupsNotFatal)
    /\ (State = "Idle") ~> (Reported \/ failure \in { "transport", "error" })
    /\ ~AllOk(writeResults) ~> Reported

\* the run is in Reported after an insertion in which a group was refused
C15_Witness ==
    /\ State = "Reported"
    /\ failure = ""
    /\ ~AllOk(writeResults)

----------------------------------------------------------------------------
(* C17: the error field of a response *)

\* C17 (as stated): a call returns the `result` field only when the `error`
\* field of the response is null (or absent); for every other `error` field,
\* the empty string included, it raises with the remote's message and
\* returns nothing.
C17_NonNullErrorRaises ==
    (outcome.fn # "" /\ response.status = "200") =>
        /\ outcome.res.raised <=> Get(response.error) # JNull
        /\ outcome.res.raised => outcome.res.message = response.error.text
        /\ ~outcome.res.raised => outcome.res.value = Get(response.result)

----------------------------------------------------------------------------
(* C16: fatal failures of remote calls *)

\* no request was posted twice in this run
NoRequestRepeated == \A i, j \in 1..Len(calls) : calls[i] = calls[j] => i = j

\* the request that failed is the last one posted
FailedAtLastCall == failure # "" => calls # << >>

\* C16: once invoke has raised in a statement of the sync run, by a transport
\* failure or by a top-level error of the remote, the run has ended there:
\* the failed request was posted once and is the last request of the run,
\* nothing of the run or of the collection changes afterwards, Reported is
\* not reached, and in the release workflow no request of the export, the
\* statistics or the release step is posted and none of these steps starts.
C16_FatalFailureAborts ==
    /\ [](failure # "" =>
            /\ failure \in { "transport", "error" }
            /\ FailedAtLastCall
            /\ NoRequestRepeated
            /\ ~Reported
            /\ State # "Reported"
            /\ requested = << >>
            /\ step \in { "sync", "failed" }
            /\ export_result = NoExport
            /\ released = "")
    /\ [][failure # "" => UNCHANGED << syncVars, requested, export_result, released >>]_vars

\* the release workflow ended in its except clause after the check of the
\* sync step was refused by the remote
C16_Witness ==
    /\ step = "failed"
    /\ failure = "error"
    /\ State = "ContainersEnsured"
    /\ Len(calls) >= 3

----------------------------------------------------------------------------
(* C20: failures and later steps *)

GithubRequests == { i \in 1..Len(requested) : requested[i].to = "github" }

StatsRequests ==
    { i \in 1..Len(requested) : requested[i].action \in { "deckNames", "findCards" } }

\* C20 (as stated): nothing is posted twice, and after a failure no later
\* step runs: a failed sync step is followed by no export, a failed export by
\* no statistics and no release, failed statistics by no release, and the
\* failure of the release is the end of the run.
C20_FailureHaltsRun ==
    /\ NoRequestRepeated
    /\ \A i, j \in 1..Len(requested) : requested[i] = requested[j] => i = j
    /\ failure # "" => requested = << >> /\ step \in { "sync", "failed" }
    /\ step = "export_failed" => StatsRequests = {} /\ GithubRequests = {}
    /\ deck_stats.failed => GithubRequests = {} /\ released = ""

----------------------------------------------------------------------------
(* C19: one writer *)

\* C19 (as stated): at any time at most one script started by the add-on is
\* running, and at most one request to the remote is outstanding, also when
\* the menu action is triggered again before an earlier run has ended.
C19_SingleWriter ==
    /\ Cardinality(Running) <= 1
    /\ Cardinality(Outstanding) <= 1

----------------------------------------------------------------------------
(* C21: the members of the package *)

\* the files of the source directory the package is meant to hold
IntendedMembers == Range(CollectFiles(source_dir.files))

\* C21 (as stated): a written archive holds the required files and the
\* optional files that exist in the source directory and no other file of
\* it; and a build that reports success has verified an archive that holds
\* every required file.
C21_ArchiveHoldsExactlyListedFiles ==
    /\ archive # << >> => archive[1] = IntendedMembers
    /\ build.pc = "succeeded" =>
        /\ archive # << >>
        /\ Range(RequiredFiles) \subseteq archive[1]

----------------------------------------------------------------------------
(* C22: a build on a bad source directory *)

\* the source directory is missing or lacks a required file
BadSource == ~source_dir.exists \/ ~(Range(RequiredFiles) \subseteq source_dir.files)

\* C22: a build on a source directory that is missing or lacks a required
\* file has no effect at any time: no archive is written, the version of the
\* manifest stays as it was, also when an increment was asked for, and no
\* old package is removed; the build never succeeds, and when it has failed
\* the failure names the directory or exactly the required files missing.
C22_BadSourceFailsWithoutEffect ==
    BadSource =>
        /\ archive = << >>
        /\ manifest.version = Version0
        /\ packages.removed = 0
        /\ build.pc \in { "validate", "failed" }
        /\ build.pc = "failed" =>
            build.names = IF ~source_dir.exists THEN { SourceDirName }
                          ELSE Range(RequiredFiles) \ source_dir.files

\* a build asked to increment the version, with more old packages than are
\* kept, has failed on a source directory without config.json
C22_Witness ==
    /\ build.pc = "failed"
    /\ build.increment_version # ""
    /\ build.clean
    /\ packages.old > keep_count
    /\ source_dir.exists
    /\ manifest.ok
    /\ Range(RequiredFiles) \ source_dir.files = { "config.json" }

----------------------------------------------------------------------------
(* C23: the note type *)

\* the createModel requests of this run
CreateModelCalls == CallsOf("createModel")

\* the notes of the addNotes groups posted in this run
WrittenNotes ==
    UNION { UNION { Range(calls[c].params.actions[k].params.notes) :
                      k \in 1..Len(calls[c].params.actions) } : c \in WriteCalls }

\* the note type was asked for by name and, when absent, created once
CreatedOnlyIfAbsent ==
    /\ Cardinality(CreateModelCalls) <= 1
    /\ \A c \in CreateModelCalls : c > 1 /\ calls[c - 1].action = "modelNames"
    /\ ExistingModel \in models => CreateModelCalls = {} /\ models = { ExistingModel }
    /\ run = 2 => CreateModelCalls = {}

\* C23 (as stated): the note type ensure_model_exists creates has exactly
\* two fields and exactly one card template; a note type of that name already
\* in the collection is left as it is and no createModel is posted, so the
\* note type is created at most once.
C23_SchemaHasTwoFields ==
    /\ \A c \in CreateModelCalls :
        /\ Len(calls[c].params.inOrderFields) = 2
        /\ Len(calls[c].params.cardTemplates) = 1
    /\ CreatedOnlyIfAbsent

\* C23 (amended): the note type ensure_model_exists creates has exactly the
\* three fields English, Spanish, Tags, the fields every note of the run
\* fills, and exactly one card template; a note type of that name already in
\* the collection is left as it is and no createModel is posted, so the note
\* type is created at most once.
C23_SchemaHasThreeFields ==
    /\ \A c \in CreateModelCalls :
        /\ calls[c].params.inOrderFields = << "English", "Spanish", "Tags" >>
        /\ Len(calls[c].params.cardTemplates) = 1
        /\ calls[c].params.modelName = MODEL_NAME
        /\ Done("ensure_model_exists") => calls[c].params \in models
    /\ \A w \in WrittenNotes :
        DOMAIN w.fields = Range(ModelDefinition.inOrderFields)
    /\ CreatedOnlyIfAbsent

\* the second run has returned without a createModel request after the first
\* run created the note type and both runs wrote notes
C23_Witness ==
    /\ run = 2
    /\ Reported
    /\ ModelDefinition \in models
    /\ CreateModelCalls = {}
    /\ prev.writes # {}

----------------------------------------------------------------------------
(* C24: the order of the release steps *)

\* C24: a request goes to GitHub only when the sync step returned without an
\* exception, export_deck returned success and GITHUB_TOKEN is set; the
\* upload is posted only directly after a release creation answered with
\* status 201; and a release is reported as created only when both requests
\* were answered with 201.
C24_ReleaseOnlyAfterSyncAndExport ==
    /\ GithubRequests # {} =>
        /\ failure = ""
        /\ stmt = Len(MainSequence)
        /\ export_result.success
        /\ token
        /\ step = "completed"
    /\ Len(github_status) = Cardinality(GithubRequests)
    /\ \A i \in GithubRequests :
        requested[i].arg = "upload" =>
            /\ i - 1 \in GithubRequests
            /\ requested[i - 1].arg = "create"
            /\ github_status[1] = "201"
    /\ Cardinality(GithubRequests) <= 2
    /\ released = "created" => github_status = << "201", "201" >>
    /\ ~token => GithubRequests = {}

\* the release was created and its asset uploaded after an export that went
\* through the plugin's server
C24_Witness ==
    /\ released = "created"
    /\ export_result.via = "plugin"
    /\ Cardinality(GithubRequests) = 2

----------------------------------------------------------------------------
(* C25 .. C28: one background run of the add-on *)

\* the kinds of the dialogs run w has caused
DialogKinds(w) == { d.kind : d \in workers[w].dialogs }

\* C25: a run whose script was still running when the timeout passed has
\* terminated it, or killed it when it did not exit, has asked for the
\* timeout dialog and for no success dialog, and has returned with the
\* subprocess no longer running and no request of it outstanding.
C25_TimeoutStopsSubprocess ==
    \A w \in 1..Len(workers) :
        workers[w].pc = "timed_out" =>
            /\ workers[w].process \in { "terminated", "killed" }
            /\ w \notin Running
            /\ w \notin Outstanding
            /\ "timeout" \in DialogKinds(w)
            /\ "success" \notin DialogKinds(w)

\* a run has killed its script, which did not exit on terminate while a
\* request of it was outstanding
C25_Witness ==
    \E w \in 1..Len(workers) :
        /\ workers[w].pc = "timed_out"
        /\ workers[w].process = "killed"
        /\ workers[w].posted > 0

\* C26: a script subprocess exists only in a run that got past the prompt by
\* a yes or by auto_confirm and holds both downloads; a run that was answered
\* no has made no directory, downloaded nothing and started nothing; a run
\* in which a download failed has started no subprocess.
C26_ScriptOnlyAfterConfirmAndDownloads ==
    \A w \in 1..Len(workers) :
        /\ workers[w].process # "none" =>
            /\ workers[w].confirmation \in { "auto_confirm", "yes" }
            /\ workers[w].pc \in { "running", "finished", "timed_out" }
        /\ workers[w].process = "running" => workers[w].files = Downloads
        /\ workers[w].confirmation = "no" =>
            /\ workers[w].pc = "cancelled"
            /\ workers[w].temp_dir = "none"
            /\ workers[w].files = {}
            /\ workers[w].process = "none"
            /\ workers[w].posted = 0
        /\ workers[w].pc = "download_failed" =>
            /\ workers[w].process = "none"
            /\ workers[w].posted = 0

\* one run was answered no, another one lost its second download, and
\* neither has a subprocess
C26_Witness ==
    \E v, w \in 1..Len(workers) :
        /\ workers[v].confirmation = "no"
        /\ workers[w].pc = "download_failed"
        /\ workers[w].confirmation = "yes"
        /\ workers[w].process = "none"

\* run w has made its temporary directory
MadeTempDir(w) == workers[w].temp_dir # "none"

\* C27 (as stated): a run that has returned after making its temporary
\* directory has removed it, with the downloads in it.
C27_TempDirRemovedOnEveryExit ==
    \A w \in 1..Len(workers) :
        (workers[w].pc \in Returned_pcs /\ MadeTempDir(w)) =>
            /\ workers[w].temp_dir = "removed"
            /\ workers[w].files = {}

\* C27 (amended): a run that has returned after making its temporary
\* directory has, on every exit path, tried to remove it: the directory and
\* the downloads are gone, or the removal failed and the run has logged the
\* warning; a run that has not returned has removed nothing.
C27_TempDirRemovalAttemptedOnEveryExit ==
    \A w \in 1..Len(workers) :
        /\ (workers[w].pc \in Returned_pcs /\ MadeTempDir(w)) =>
            \/ workers[w].temp_dir = "removed" /\ workers[w].files = {} /\ ~workers[w].warning
            \/ workers[w].temp_dir = "exists" /\ workers[w].warning
        /\ workers[w].pc \notin Returned_pcs =>
            workers[w].temp_dir # "removed" /\ ~workers[w].warning

\* runs have returned by a timeout and by a failed download, each with its
\* temporary directory removed
C27_Witness ==
    \E v, w \in 1..Len(workers) :
        /\ workers[v].pc = "timed_out"
        /\ workers[v].temp_dir = "removed"
        /\ workers[w].pc = "download_failed"
        /\ workers[w].temp_dir = "removed"

\* C28 (as stated): every dialog a background run causes is executed on the
\* main thread.
C28_DialogsOnMainThread ==
    \A w \in 1..Len(workers) :
        \A d \in workers[w].dialogs : d.thread = "main"

----------------------------------------------------------------------------
(* C29, C30: export_deck_apkg *)

\* C29: a call of export_deck_apkg, of either implementation, with a deck
\* name that is not in allowed_decks returns, with success False and the
\* error that names the allowed decks; it has looked up no deck, made no
\* directory, written no file, run no exporter and left the collection as
\* it was.
C29_DisallowedDeckRefusedWithoutEffect ==
    (export.returned /\ export.deck_name \notin Range(allowed_decks)) =>
        /\ ~export.success
        /\ export.error = "not in allowed decks"
        /\ export.lookups = 0
        /\ export.exporters = 0
        /\ disk = NoDisk
        /\ col = export.before

\* the plugin class has refused a deck that exists in the collection but is
\* not in the configured list
C29_Witness ==
    /\ export.returned
    /\ export.impl = "DeckExporter"
    /\ export.deck_name = "Default"
    /\ "Default" \in col
    /\ allowed_decks = DefaultAllowedDecks
    /\ ~export.success

\* C30 (as stated): a call of export_deck_apkg, of either implementation,
\* with an allowed deck name that the collection does not hold returns the
\* failure "not found", creates no deck and exports nothing.
C30_MissingDeckNotFound ==
    (export.returned /\ export.deck_name \in Range(allowed_decks)
        /\ export.deck_name \notin export.before) =>
        /\ ~export.success
        /\ export.error = "not found"
        /\ col = export.before
        /\ export.exporters = 0
        /\ disk = NoDisk

====
